---- MODULE Spec2Model ----
(***************************************************************************)
(* A model of retrrry (src/src/retrrry/__init__.py): the Retry controller, *)
(* its stop / wait / rejection policies, the Attempt (Outcome) entity and  *)
(* RetryError, and the control loop of Retry.call().                       *)
(*                                                                         *)
(* Optional[...] arguments are modelled as sequences of length 0 or 1:     *)
(* None is <<>> and a given value x is <<x>>.  Time is in milliseconds.    *)
(*                                                                         *)
(* Spec follows call() under configurations with no hook and no           *)
(* wait_jitter_max; HookSpec and JitterSpec follow it with them, and       *)
(* TwoSpec follows two calls on one Retry object.                          *)
(***************************************************************************)
EXTENDS Integers, Sequences, FiniteSets, TLC

VARIABLES
    dkwds,                          \* keyword arguments given to retry(...) / Retry(...)
    self,                           \* the Retry object built from them
    pc,                             \* position of call(): idle, attempt, stop, sleep, done
    now,                            \* the clock read by _current_time_ms()
    start_time_ms,                  \* local of call()
    attempt_number,                 \* local of call()
    attempt,                        \* local of call(): the current Attempt
    delay_since_first_attempt_ms,   \* local of call()
    stop_result,                    \* value of self.stop(...) at the last consultation
    stop_calls,                     \* number of times call() has called self.stop
    sleep_ms,                       \* local of call()
    outcome,                        \* how call() ended: value returned or exception raised
    invocations,                    \* number of times f was invoked in this call
    f_result,                       \* how the last invocation of f ended
    events,                         \* hooks called, invocations of f and sleeps, in order
    consulted,                      \* the predicates should_reject last applied
    sleep_us,                       \* argument of time.sleep(...), in microseconds
    slept_us,                       \* total time spent in time.sleep, in microseconds
    other,                          \* the locals of another call() on the same Retry
    query                           \* last direct use of r.stop(a, e) on a constructed Retry

vars == <<dkwds, self, pc, now, start_time_ms, attempt_number, attempt,
          delay_since_first_attempt_ms, stop_result, stop_calls, sleep_ms, outcome,
          invocations, f_result, events, consulted, sleep_us, slept_us, other,
          query>>

-----------------------------------------------------------------------------
(* Bounds of the model *)

\* call() is followed for at most this many attempts
MaxAttempts == 6
\* one invocation of f takes between 0 and MaxRunMs milliseconds
MaxRunMs == 1
\* the clock reads between 0 and MaxStartMs when the model starts
MaxStartMs == 1
\* r.stop(a, e) is queried with e in 0..MaxQueryMs (and around the default delay)
MaxQueryMs == 3
\* random.random() returns one of 0, 1/JitterSteps, ..., (JitterSteps - 1)/JitterSteps
JitterSteps == 4

-----------------------------------------------------------------------------
(* Program constants: the defaults of Retry.__init__ *)

DefaultStopMaxAttemptNumber == 5
DefaultStopMaxDelay == 100
DefaultWaitFixed == 1000

-----------------------------------------------------------------------------
(* Optional values *)

None == <<>>
Some(x) == <<x>>
Value(o) == o[1]

\* Python's None as a returned value
PyNone == "None"

-----------------------------------------------------------------------------
(* Program constants *)

MAX_WAIT == 1073741823
DefaultWaitRandomMin == 0
DefaultWaitRandomMax == 1000
DefaultWaitIncrementingStart == 0
DefaultWaitIncrementingIncrement == 100
DefaultWaitExponentialMultiplier == 1
DefaultWaitJitterMax == 0

-----------------------------------------------------------------------------
(* Exceptions.  An exception object is a record of its class and of the     *)
(* invocation of f that created it, which stands for its identity.          *)

ExceptionTypes == {"IOError", "NameError"}

Exception(tp, id) == [tp |-> tp, id |-> id]

\* isinstance(exception, retryable_types)
isinstance(exception, retryable_types) == exception.tp \in retryable_types

\* sys.exc_info() in the handler of an exception: (type, value, traceback)
exc_info(exception) == <<exception.tp, exception, "traceback">>

-----------------------------------------------------------------------------
(* Retry.__init__ *)

\* (variant: both limits are always active, an unset one with its default)
stop_funcs_both(kw) == <<"stop_after_attempt", "stop_after_delay">>

\* (variant: the attempt limit is always active, unset with its default)
stop_funcs_attempt_always(kw) ==
    <<"stop_after_attempt">>
    \o (IF kw.stop_max_delay # None THEN <<"stop_after_delay">> ELSE <<>>)

\* the list stop_funcs built by __init__: names of the bound methods appended
stop_funcs(kw) ==
    (IF kw.stop_max_attempt_number # None THEN <<"stop_after_attempt">> ELSE <<>>)
    \o (IF kw.stop_max_delay # None THEN <<"stop_after_delay">> ELSE <<>>)

\* the list wait_funcs built by __init__, starting with the local _wait_function
wait_funcs(kw) ==
    <<"_wait_function">>
    \o (IF kw.wait_fixed # None THEN <<"fixed_sleep">> ELSE <<>>)
    \o (IF kw.wait_random_min # None \/ kw.wait_random_max # None
        THEN <<"random_sleep">> ELSE <<>>)
    \o (IF kw.wait_incrementing_start # None \/ kw.wait_incrementing_increment # None
        THEN <<"incrementing_sleep">> ELSE <<>>)
    \o (IF kw.wait_exponential_multiplier # None \/ kw.wait_exponential_max # None
        THEN <<"exponential_sleep">> ELSE <<>>)

\* x if it was given, else the default
OrDefault(o, default) == IF o = None THEN default ELSE Value(o)

\* (variant: a named stop method or a given limit wins over stop_func)
SelectStopBuiltinFirst(kw) ==
    IF kw.stop # None
    THEN [kind |-> "getattr", name |-> Value(kw.stop), funcs |-> <<>>]
    ELSE IF kw.stop_func # None /\ stop_funcs(kw) = <<>>
    THEN [kind |-> "stop_func", name |-> Value(kw.stop_func), funcs |-> <<>>]
    ELSE [kind |-> "any", name |-> "", funcs |-> stop_funcs(kw)]

\* self.stop: the caller's function, the any(...) lambda over stop_funcs,
\* or getattr(self, stop)
SelectStop(kw) ==
    IF kw.stop_func # None
    THEN [kind |-> "stop_func", name |-> Value(kw.stop_func), funcs |-> <<>>]
    ELSE IF kw.stop = None
    THEN [kind |-> "any", name |-> "", funcs |-> stop_funcs(kw)]
    ELSE [kind |-> "getattr", name |-> Value(kw.stop), funcs |-> <<>>]

\* self.wait: the caller's function, the max(...) lambda over wait_funcs,
\* or getattr(self, wait)
SelectWait(kw) ==
    IF kw.wait_func # None
    THEN [kind |-> "wait_func", name |-> Value(kw.wait_func), funcs |-> <<>>]
    ELSE IF kw.wait = None
    THEN [kind |-> "max", name |-> "", funcs |-> wait_funcs(kw)]
    ELSE [kind |-> "getattr", name |-> Value(kw.wait), funcs |-> <<>>]

\* self._retry_on_exception: always_reject, or the predicate made of the tuple of types
SelectRetryOnException(kw) ==
    IF kw.retry_on_exception = None
    THEN [kind |-> "always_reject", types |-> {}]
    ELSE [kind |-> "_retry_if_exception_of_type", types |-> Value(kw.retry_on_exception)]

\* self._retry_on_result: never_reject, or the caller's predicate
SelectRetryOnResult(kw) ==
    IF kw.retry_on_result = None THEN "never_reject" ELSE Value(kw.retry_on_result)

Retry(kw) ==
    [ _stop_max_attempt_number |->
          OrDefault(kw.stop_max_attempt_number, DefaultStopMaxAttemptNumber),
      _stop_max_delay |-> OrDefault(kw.stop_max_delay, DefaultStopMaxDelay),
      _wait_fixed |-> OrDefault(kw.wait_fixed, DefaultWaitFixed),
      _wait_random_min |-> OrDefault(kw.wait_random_min, DefaultWaitRandomMin),
      _wait_random_max |-> OrDefault(kw.wait_random_max, DefaultWaitRandomMax),
      _wait_incrementing_start |->
          OrDefault(kw.wait_incrementing_start, DefaultWaitIncrementingStart),
      _wait_incrementing_increment |->
          OrDefault(kw.wait_incrementing_increment, DefaultWaitIncrementingIncrement),
      _wait_exponential_multiplier |->
          OrDefault(kw.wait_exponential_multiplier, DefaultWaitExponentialMultiplier),
      _wait_exponential_max |-> OrDefault(kw.wait_exponential_max, MAX_WAIT),
      _wait_incrementing_max |-> OrDefault(kw.wait_incrementing_max, MAX_WAIT),
      _wait_jitter_max |-> OrDefault(kw.wait_jitter_max, DefaultWaitJitterMax),
      _before_attempts |-> kw.before_attempts,
      _after_attempts |-> kw.after_attempts,
      stop |-> SelectStop(kw),
      wait |-> SelectWait(kw),
      _retry_on_exception |-> SelectRetryOnException(kw),
      _retry_on_result |-> SelectRetryOnResult(kw),
      _wrap_exception |-> kw.wrap_exception ]

-----------------------------------------------------------------------------
(* Stop policies *)

\* (variant: an off-by-one comparison)
stop_after_attempt_gt(r, previous_attempt_number, delay_ms) ==
    previous_attempt_number > r._stop_max_attempt_number

stop_after_attempt(r, previous_attempt_number, delay_ms) ==
    previous_attempt_number >= r._stop_max_attempt_number

\* (variant: an off-by-one comparison)
stop_after_delay_gt(r, previous_attempt_number, delay_ms) ==
    delay_ms > r._stop_max_delay

stop_after_delay(r, previous_attempt_number, delay_ms) ==
    delay_ms >= r._stop_max_delay

\* the stop_func of the tests: lambda attempt, delay: attempt == delay
stop_func(name, attempts, delay) ==
    CASE name = "attempt_eq_delay" -> attempts = delay

\* a bound stop method of r, by name
StopMethod(r, name, a, d) ==
    CASE name = "stop_after_attempt" -> stop_after_attempt(r, a, d)
      [] name = "stop_after_delay" -> stop_after_delay(r, a, d)

\* (variant: all(...) in place of any(...))
AnyStopAll(r, funcs, attempts, delay) ==
    Len(funcs) > 0 /\ \A i \in 1..Len(funcs) : StopMethod(r, funcs[i], attempts, delay)

\* the lambda of __init__: any(f(attempts, delay) for f in stop_funcs)
AnyStop(r, funcs, attempts, delay) ==
    \E i \in 1..Len(funcs) : StopMethod(r, funcs[i], attempts, delay)

\* r.stop(attempts, delay)
Stop(r, attempts, delay) ==
    CASE r.stop.kind = "stop_func" -> stop_func(r.stop.name, attempts, delay)
      [] r.stop.kind = "any" -> AnyStop(r, r.stop.funcs, attempts, delay)
      [] r.stop.kind = "getattr" -> StopMethod(r, r.stop.name, attempts, delay)

-----------------------------------------------------------------------------
(* Wait policies.  random_sleep draws a value, so a wait policy yields the  *)
(* set of delays it can return.                                             *)

Max(S) == CHOOSE x \in S : \A y \in S : y <= x
Min2(a, b) == IF a <= b THEN a ELSE b

fixed_sleep(r, previous_attempt_number, delay_ms) == r._wait_fixed

\* (variant: the upper bound is excluded, as random.randrange does)
random_sleep_below_max(r, previous_attempt_number, delay_ms) ==
    r._wait_random_min .. (r._wait_random_max - 1)

\* random.randint(min, max): any integer of the inclusive range
random_sleep(r, previous_attempt_number, delay_ms) ==
    r._wait_random_min .. r._wait_random_max

\* (variant: the increment is applied previous_attempt_number times)
incrementing_sleep_from_second(r, previous_attempt_number, delay_ms) ==
    LET result == Min2(r._wait_incrementing_start
                       + r._wait_incrementing_increment * previous_attempt_number,
                       r._wait_incrementing_max)
    IN  IF result > 0 THEN result ELSE 0

incrementing_sleep(r, previous_attempt_number, delay_ms) ==
    LET result == Min2(r._wait_incrementing_start
                       + r._wait_incrementing_increment * (previous_attempt_number - 1),
                       r._wait_incrementing_max)
    IN  IF result > 0 THEN result ELSE 0

\* (variant: the exponent is previous_attempt_number - 1)
exponential_sleep_from_one(r, previous_attempt_number, delay_ms) ==
    LET result == Min2(r._wait_exponential_multiplier * 2 ^ (previous_attempt_number - 1),
                       r._wait_exponential_max)
    IN  IF result > 0 THEN result ELSE 0

exponential_sleep(r, previous_attempt_number, delay_ms) ==
    LET result == Min2(r._wait_exponential_multiplier * 2 ^ previous_attempt_number,
                       r._wait_exponential_max)
    IN  IF result > 0 THEN result ELSE 0

\* the wait_func of the tests: lambda attempt, delay: attempt * delay
wait_func(name, attempts, delay) ==
    CASE name = "attempt_times_delay" -> attempts * delay

\* the delays a bound wait method of r can return
WaitMethod(r, name, a, d) ==
    CASE name = "_wait_function" -> {0}
      [] name = "fixed_sleep" -> {fixed_sleep(r, a, d)}
      [] name = "random_sleep" -> random_sleep(r, a, d)
      [] name = "incrementing_sleep" -> {incrementing_sleep(r, a, d)}
      [] name = "exponential_sleep" -> {exponential_sleep(r, a, d)}

\* (variant: the delays of the sub-policies are added)
RECURSIVE SumWait(_, _, _, _)
SumWait(r, funcs, attempts, delay) ==
    LET last == WaitMethod(r, funcs[Len(funcs)], attempts, delay)
    IN  IF Len(funcs) = 1
        THEN last
        ELSE { x + y : x \in SumWait(r, SubSeq(funcs, 1, Len(funcs) - 1), attempts, delay),
                       y \in last }

\* the lambda of __init__: max(f(attempts, delay) for f in wait_funcs), for each
\* way the functions can answer
RECURSIVE MaxWait(_, _, _, _)
MaxWait(r, funcs, attempts, delay) ==
    LET last == WaitMethod(r, funcs[Len(funcs)], attempts, delay)
    IN  IF Len(funcs) = 1
        THEN last
        ELSE { Max({x, y}) : x \in MaxWait(r, SubSeq(funcs, 1, Len(funcs) - 1), attempts, delay),
                            y \in last }

\* r.wait(attempts, delay): the values it can return
Wait(r, attempts, delay) ==
    CASE r.wait.kind = "wait_func" -> {wait_func(r.wait.name, attempts, delay)}
      [] r.wait.kind = "max" -> MaxWait(r, r.wait.funcs, attempts, delay)
      [] r.wait.kind = "getattr" -> WaitMethod(r, r.wait.name, attempts, delay)

-----------------------------------------------------------------------------
(* Attempt and RetryError *)

\* (variant: the value given is also kept as returned_value of a failed Attempt)
AttemptKeepsValue(value, number, has_exception) ==
    [ exception_info |-> IF has_exception THEN value ELSE None,
      returned_value |-> value,
      attempt_number |-> number ]

\* Attempt.__init__
Attempt(value, number, has_exception) ==
    [ exception_info |-> IF has_exception THEN value ELSE None,
      returned_value |-> IF has_exception THEN PyNone ELSE value,
      attempt_number |-> number ]

\* Attempt.has_exception: bool(self.exception_info)
holds_exception(a) == a.exception_info # None

\* RetryError.__init__
RetryError(last_attempt) == [tp |-> "RetryError", last_attempt |-> last_attempt]

\* how a function ends: it returns a value or raises an exception
Return(v) == [kind |-> "return", value |-> v]
Raise(e) == [kind |-> "raise", exception |-> e]

\* (variant: a new exception of the captured class is raised)
_reraise_new(info) == Raise(Exception(info[1], 0))

\* _reraise(tp, value, tb): raises value
_reraise(info) == Raise(info[2])

\* Attempt.get(wrap_exception)
get(a, wrap_exception) ==
    IF a.exception_info # None
    THEN IF wrap_exception THEN Raise(RetryError(a)) ELSE _reraise(a.exception_info)
    ELSE Return(a.returned_value)

-----------------------------------------------------------------------------
(* Rejection policy *)

never_reject(result) == FALSE

always_reject(result) == TRUE

\* the predicate returned by _retry_if_exception_of_type(retryable_types)
_retry_if_exception_these_types(retryable_types, exception) ==
    isinstance(exception, retryable_types)

\* the retry_on_result predicate of the tests
retry_if_result_none(result) == result = PyNone

\* (variant: every exception is retried, whatever the filter)
retry_on_exception_always(r, exception) == always_reject(exception)

\* self._retry_on_exception(exception)
retry_on_exception(r, exception) ==
    CASE r._retry_on_exception.kind = "always_reject" -> always_reject(exception)
      [] r._retry_on_exception.kind = "_retry_if_exception_of_type" ->
            _retry_if_exception_these_types(r._retry_on_exception.types, exception)

\* self._retry_on_result(value)
retry_on_result(r, result) ==
    CASE r._retry_on_result = "never_reject" -> never_reject(result)
      [] r._retry_on_result = "retry_if_result_none" -> retry_if_result_none(result)

\* (variant: an Outcome is rejected when either predicate rejects its field)
should_reject_either(r, a) ==
    \/ a.exception_info # None /\ retry_on_exception(r, a.exception_info[2])
    \/ retry_on_result(r, a.returned_value)

\* Retry.should_reject
should_reject(r, a) ==
    IF a.exception_info # None
    THEN retry_on_exception(r, a.exception_info[2])
    ELSE retry_on_result(r, a.returned_value)

-----------------------------------------------------------------------------
(* Retry.call(f): the control loop *)

\* what f returns
ReturnValues == {PyNone, "True"}

NoAttempt == Attempt(PyNone, 0, FALSE)
NoOutcome == [kind |-> "none"]

\* the predicates that should_reject(a) applies
predicates_applied(r, a) ==
    IF a.exception_info # None THEN {"_retry_on_exception"} ELSE {"_retry_on_result"}

\* if hook: hook(attempt_number), recorded in the log of events
call_hook(hook, kind, number, log) ==
    IF hook # None THEN Append(log, <<kind, number>>) ELSE log

\* milliseconds in microseconds; time.sleep(ms / 1000.0) suspends for that long
ToMicros(ms) == ms * 1000

\* (variant: random.random() can also return 1)
RandomUnitClosed == 0..JitterSteps

\* the numerators u of the values u / JitterSteps of random.random(), in [0, 1)
RandomUnit == 0..(JitterSteps - 1)

\* jitter = random.random() * self._wait_jitter_max, in microseconds
jitter_us(r, u) == (u * ToMicros(r._wait_jitter_max)) \div JitterSteps

\* sleep_ms + max(0, jitter), in microseconds
add_jitter(ms, jitter) == ToMicros(ms) + Max({0, jitter})

\* the arguments call() can pass to time.sleep when the wait policy answers ms
sleep_args(r, ms) ==
    IF r._wait_jitter_max # 0
    THEN { add_jitter(ms, jitter_us(r, u)) : u \in RandomUnit }
    ELSE { ToMicros(ms) }

\* what the millisecond clock can advance by while us microseconds pass
clock_advance(us) == { us \div 1000, (us + 999) \div 1000 }

\* (variant: an accepted attempt is unwrapped without wrap_exception)
AcceptUnwrapped(r, a) == get(a, FALSE)

\* the end of call() on an accepted attempt: return attempt.get(self._wrap_exception)
Accept(r, a) == get(a, r._wrap_exception)

\* (variant: giving up always wraps)
GiveUpAlwaysWraps(r, a) == Raise(RetryError(a))

\* (variant: giving up never wraps a failure)
GiveUpNeverWraps(r, a) ==
    IF a.exception_info # None THEN get(a, FALSE) ELSE Raise(RetryError(a))

\* (variant: giving up ends like an accepted attempt)
GiveUpViaGet(r, a) == get(a, r._wrap_exception)

\* the end of call() when the stop policy says stop
GiveUp(r, a) ==
    IF ~r._wrap_exception /\ a.exception_info # None
    THEN get(a, FALSE)
    ELSE Raise(RetryError(a))

\* (variant: the stop policy is asked on entry, before f is invoked)
CallAsksStopFirst ==
    /\ pc = "idle"
    /\ start_time_ms' = now
    /\ attempt_number' = 1
    /\ IF Stop(self, 0, 0)
       THEN /\ pc' = "done"
            /\ outcome' = [exit |-> "gave up", result |-> GiveUp(self, attempt)]
       ELSE /\ pc' = "attempt"
            /\ outcome' = outcome
    /\ UNCHANGED <<dkwds, self, now, attempt, delay_since_first_attempt_ms,
                   stop_result, stop_calls, sleep_ms, invocations, f_result, events,
                   consulted, sleep_us, slept_us, other, query>>

\* call() is entered: the start time is read and attempt_number set to 1
Call ==
    /\ pc = "idle"
    /\ start_time_ms' = now
    /\ attempt_number' = 1
    /\ pc' = "attempt"
    /\ UNCHANGED <<dkwds, self, now, attempt, delay_since_first_attempt_ms,
                   stop_result, stop_calls,
                   sleep_ms, outcome, invocations, f_result, events,
                   consulted, sleep_us, slept_us, other, query>>

\* (variant: the after hook is called after every attempt, accepted or not)
JudgeHookAfterEvery(a) ==
    /\ attempt' = a
    /\ consulted' = predicates_applied(self, a)
    /\ events' = call_hook(self._after_attempts, "after", attempt_number,
                           Append(call_hook(self._before_attempts, "before",
                                            attempt_number, events),
                                  <<"f", attempt_number>>))
    /\ IF ~should_reject(self, a)
       THEN /\ outcome' = [exit |-> "accepted", result |-> Accept(self, a)]
            /\ pc' = "done"
       ELSE /\ outcome' = outcome
            /\ pc' = "stop"

\* (variant: the stop policy is asked before an attempt is accepted)
JudgeAfterStop(a) ==
    /\ attempt' = a
    /\ consulted' = predicates_applied(self, a)
    /\ LET ran == Append(call_hook(self._before_attempts, "before", attempt_number, events),
                         <<"f", attempt_number>>)
       IN  IF ~should_reject(self, a) /\ ~Stop(self, attempt_number, now' - start_time_ms)
           THEN /\ outcome' = [exit |-> "accepted", result |-> Accept(self, a)]
                /\ events' = ran
                /\ pc' = "done"
           ELSE /\ outcome' = outcome
                /\ events' = call_hook(self._after_attempts, "after", attempt_number, ran)
                /\ pc' = "stop"

\* the rest of an iteration once f has ended with Attempt a: an accepted attempt
\* ends the call, a rejected one goes on to the stop policy
Judge(a) ==
    /\ attempt' = a
    /\ consulted' = predicates_applied(self, a)
    /\ LET ran == Append(call_hook(self._before_attempts, "before", attempt_number, events),
                         <<"f", attempt_number>>)
       IN  IF ~should_reject(self, a)
           THEN /\ outcome' = [exit |-> "accepted", result |-> Accept(self, a)]
                /\ events' = ran
                /\ pc' = "done"
           ELSE /\ outcome' = outcome
                /\ events' = call_hook(self._after_attempts, "after", attempt_number, ran)
                /\ pc' = "stop"

\* one invocation of f that takes dt ms and returns v
AttemptReturns(dt, v) ==
    /\ pc = "attempt"
    /\ now' = now + dt
    /\ invocations' = invocations + 1
    /\ f_result' = Return(v)
    /\ Judge(Attempt(v, attempt_number, FALSE))
    /\ UNCHANGED <<dkwds, self, start_time_ms, attempt_number,
                   delay_since_first_attempt_ms, stop_result, stop_calls,
                   sleep_ms, sleep_us,
                   slept_us, other, query>>

\* one invocation of f that takes dt ms and raises an exception of class tp
AttemptRaises(dt, tp) ==
    /\ pc = "attempt"
    /\ now' = now + dt
    /\ invocations' = invocations + 1
    /\ f_result' = Raise(Exception(tp, invocations + 1))
    /\ Judge(Attempt(exc_info(Exception(tp, invocations + 1)), attempt_number, TRUE))
    /\ UNCHANGED <<dkwds, self, start_time_ms, attempt_number,
                   delay_since_first_attempt_ms, stop_result, stop_calls,
                   sleep_ms, sleep_us,
                   slept_us, other, query>>

\* after a rejected attempt: the elapsed time is computed and the stop policy
\* consulted; call() gives up, or computes the wait
CheckStop ==
    /\ pc = "stop"
    /\ LET delay == now - start_time_ms
           stopped == Stop(self, attempt_number, delay)
       IN  /\ delay_since_first_attempt_ms' = delay
           /\ stop_result' = stopped
           /\ stop_calls' = stop_calls + 1
           /\ IF stopped
              THEN /\ outcome' = [exit |-> "gave up", result |-> GiveUp(self, attempt)]
                   /\ pc' = "done"
                   /\ UNCHANGED <<sleep_ms, sleep_us>>
              ELSE /\ sleep_ms' \in Wait(self, attempt_number, delay)
                   /\ sleep_us' \in sleep_args(self, sleep_ms')
                   /\ pc' = "sleep"
                   /\ outcome' = outcome
    /\ UNCHANGED <<dkwds, self, now, start_time_ms, attempt_number, attempt,
                   invocations, f_result, events, consulted, slept_us, other, query>>

\* (variant: attempt_number also counts the sleep)
SleepCounted ==
    /\ pc = "sleep"
    /\ attempt_number < MaxAttempts
    /\ now' \in { now + d : d \in clock_advance(sleep_us) }
    /\ slept_us' = slept_us + sleep_us
    /\ events' = Append(events, <<"sleep", attempt_number>>)
    /\ attempt_number' = attempt_number + 2
    /\ pc' = "attempt"
    /\ UNCHANGED <<dkwds, self, start_time_ms, attempt, delay_since_first_attempt_ms,
                   stop_result, stop_calls,
                   sleep_ms, outcome, invocations, f_result, consulted,
                   sleep_us, other, query>>

\* (variant: the loop goes on to the next attempt without suspending)
SleepSkipped ==
    /\ pc = "sleep"
    /\ attempt_number < MaxAttempts
    /\ attempt_number' = attempt_number + 1
    /\ pc' = "attempt"
    /\ UNCHANGED <<dkwds, self, now, start_time_ms, attempt, delay_since_first_attempt_ms,
                   stop_result, stop_calls,
                   sleep_ms, outcome, invocations, f_result, events,
                   consulted, sleep_us, slept_us, other, query>>

\* time.sleep(sleep_ms / 1000.0), then attempt_number = attempt_number + 1
Sleep ==
    /\ pc = "sleep"
    /\ attempt_number < MaxAttempts
    /\ now' \in { now + d : d \in clock_advance(sleep_us) }
    /\ slept_us' = slept_us + sleep_us
    /\ events' = Append(events, <<"sleep", attempt_number>>)
    /\ attempt_number' = attempt_number + 1
    /\ pc' = "attempt"
    /\ UNCHANGED <<dkwds, self, start_time_ms, attempt, delay_since_first_attempt_ms,
                   stop_result, stop_calls,
                   sleep_ms, outcome, invocations, f_result, consulted,
                   sleep_us, other, query>>

-----------------------------------------------------------------------------
(* Two calls on one Retry.  The variables above are the locals of the call   *)
(* that runs; the locals of the other call wait in other until a switch.    *)

\* the locals of the call that runs
Frame ==
    [ pc |-> pc, start_time_ms |-> start_time_ms, attempt_number |-> attempt_number,
      attempt |-> attempt, delay_since_first_attempt_ms |-> delay_since_first_attempt_ms,
      stop_result |-> stop_result, stop_calls |-> stop_calls,
      sleep_ms |-> sleep_ms, outcome |-> outcome,
      invocations |-> invocations, f_result |-> f_result, events |-> events,
      consulted |-> consulted, sleep_us |-> sleep_us, slept_us |-> slept_us ]

\* the locals of a call that has not been entered
NoFrame ==
    [ pc |-> "idle", start_time_ms |-> 0, attempt_number |-> 0,
      attempt |-> NoAttempt, delay_since_first_attempt_ms |-> 0,
      stop_result |-> FALSE, stop_calls |-> 0,
      sleep_ms |-> 0, outcome |-> NoOutcome,
      invocations |-> 0, f_result |-> NoOutcome, events |-> <<>>,
      consulted |-> {}, sleep_us |-> 0, slept_us |-> 0 ]

\* calls 1 and 2: call 1 runs first
NoOther == [call |-> 2, frame |-> NoFrame]

\* (variant: attempt_number is kept on the Retry object, shared by the calls)
SwitchSharedNumber ==
    /\ other' = [call |-> 3 - other.call, frame |-> Frame]
    /\ pc' = other.frame.pc
    /\ start_time_ms' = other.frame.start_time_ms
    /\ attempt' = other.frame.attempt
    /\ delay_since_first_attempt_ms' = other.frame.delay_since_first_attempt_ms
    /\ stop_result' = other.frame.stop_result
    /\ stop_calls' = other.frame.stop_calls
    /\ sleep_ms' = other.frame.sleep_ms
    /\ outcome' = other.frame.outcome
    /\ invocations' = other.frame.invocations
    /\ f_result' = other.frame.f_result
    /\ events' = other.frame.events
    /\ consulted' = other.frame.consulted
    /\ sleep_us' = other.frame.sleep_us
    /\ slept_us' = other.frame.slept_us
    /\ UNCHANGED <<dkwds, self, now, attempt_number, query>>

\* the thread of the other call is scheduled: its locals come back, those of
\* the call that ran are kept; the Retry object and the clock are shared
Switch ==
    /\ other' = [call |-> 3 - other.call, frame |-> Frame]
    /\ pc' = other.frame.pc
    /\ start_time_ms' = other.frame.start_time_ms
    /\ attempt_number' = other.frame.attempt_number
    /\ attempt' = other.frame.attempt
    /\ delay_since_first_attempt_ms' = other.frame.delay_since_first_attempt_ms
    /\ stop_result' = other.frame.stop_result
    /\ stop_calls' = other.frame.stop_calls
    /\ sleep_ms' = other.frame.sleep_ms
    /\ outcome' = other.frame.outcome
    /\ invocations' = other.frame.invocations
    /\ f_result' = other.frame.f_result
    /\ events' = other.frame.events
    /\ consulted' = other.frame.consulted
    /\ sleep_us' = other.frame.sleep_us
    /\ slept_us' = other.frame.slept_us
    /\ UNCHANGED <<dkwds, self, now, query>>

-----------------------------------------------------------------------------
(* Direct use of a constructed Retry: r.stop(a, e) *)

QueryDelays ==
    0..MaxQueryMs
    \cup {DefaultStopMaxDelay - 1, DefaultStopMaxDelay, DefaultStopMaxDelay + 1}

NoQuery == [fn |-> "none", attempts |-> 0, delay |-> 0, result |-> FALSE]

QueryStop(a, e) ==
    /\ pc = "idle"
    /\ query' = [fn |-> "stop", attempts |-> a, delay |-> e, result |-> Stop(self, a, e)]
    /\ UNCHANGED <<dkwds, self, pc, now, start_time_ms, attempt_number, attempt,
                   delay_since_first_attempt_ms, stop_result, stop_calls,
                   sleep_ms, outcome,
                   invocations, f_result, events, consulted, sleep_us, slept_us,
                   other>>

\* r.wait(a, e), which may answer any of the values of Wait
QueryWait(a, e) ==
    /\ pc = "idle"
    /\ \E w \in Wait(self, a, e) :
          query' = [fn |-> "wait", attempts |-> a, delay |-> e, result |-> w]
    /\ UNCHANGED <<dkwds, self, pc, now, start_time_ms, attempt_number, attempt,
                   delay_since_first_attempt_ms, stop_result, stop_calls,
                   sleep_ms, outcome,
                   invocations, f_result, events, consulted, sleep_us, slept_us,
                   other>>

-----------------------------------------------------------------------------
(* Configurations *)

\* the attempt limits given: 0..MaxStopAttempts
MaxStopAttempts == 3
\* the delay limits given: 0 and MaxStopDelay
MaxStopDelay == 2
\* the fixed wait given
WaitFixedMs == 1

Optional(S) == {None} \cup {Some(x) : x \in S}

Kwds ==
    [ stop : Optional({"stop_after_attempt", "stop_after_delay"}),
      wait : {None},
      stop_max_attempt_number : Optional(0..MaxStopAttempts),
      stop_max_delay : Optional({0, MaxStopDelay}),
      wait_fixed : Optional({WaitFixedMs}),
      wait_random_min : {None},
      wait_random_max : {None},
      wait_incrementing_start : {None},
      wait_incrementing_increment : {None},
      wait_incrementing_max : {None},
      wait_exponential_multiplier : {None},
      wait_exponential_max : {None},
      retry_on_exception : Optional({{"IOError"}}),
      retry_on_result : Optional({"retry_if_result_none"}),
      wrap_exception : BOOLEAN,
      stop_func : Optional({"attempt_eq_delay"}),
      wait_func : {None},
      wait_jitter_max : {None},
      before_attempts : {None},
      after_attempts : {None} ]

\* the configurations call() is followed under: an overriding stop_func is given
\* alone, a named stop method with no other limit than its own
CallKwds ==
    { kw \in Kwds :
        /\ kw.stop_func # None =>
              kw.stop = None /\ kw.stop_max_attempt_number = None /\ kw.stop_max_delay = None
        /\ kw.stop = Some("stop_after_attempt") => kw.stop_max_delay = None
        /\ kw.stop = Some("stop_after_delay") => kw.stop_max_attempt_number = None }

\* the configurations r.stop is queried under: every stop option, nothing else
PolicyKwds ==
    { kw \in Kwds :
        /\ kw.wait_fixed = None
        /\ kw.retry_on_exception = None
        /\ kw.retry_on_result = None
        /\ ~kw.wrap_exception }

Constructed(kw) ==
    /\ dkwds = kw
    /\ self = Retry(dkwds)
    /\ pc = "idle"
    /\ now \in 0..MaxStartMs
    /\ start_time_ms = 0
    /\ attempt_number = 0
    /\ attempt = NoAttempt
    /\ delay_since_first_attempt_ms = 0
    /\ stop_result = FALSE
    /\ stop_calls = 0
    /\ sleep_ms = 0
    /\ outcome = NoOutcome
    /\ invocations = 0
    /\ f_result = NoOutcome
    /\ events = <<>>
    /\ consulted = {}
    /\ sleep_us = 0
    /\ slept_us = 0
    /\ other = NoOther
    /\ query = NoQuery

\* kw with the arguments of o given instead
Override(kw, o) == [f \in DOMAIN kw |-> IF f \in DOMAIN o THEN o[f] ELSE kw[f]]

\* Retry(): no argument given
NoKwds == CHOOSE kw \in Kwds :
             \A f \in DOMAIN kw : kw[f] = IF f = "wrap_exception" THEN FALSE ELSE None

\* the bounds of the random wait given
RandomMinMs == 1
RandomMaxMs == 3

\* which wait sub-policies the arguments o switch on
GivesFixed(o) == o.wait_fixed # None
GivesRandom(o) == o.wait_random_min # None \/ o.wait_random_max # None
GivesIncrementing(o) ==
    o.wait_incrementing_start # None \/ o.wait_incrementing_increment # None
GivesExponential(o) ==
    o.wait_exponential_multiplier # None \/ o.wait_exponential_max # None
WaitFamilies(o) ==
    (IF GivesFixed(o) THEN 1 ELSE 0) + (IF GivesRandom(o) THEN 1 ELSE 0)
    + (IF GivesIncrementing(o) THEN 1 ELSE 0) + (IF GivesExponential(o) THEN 1 ELSE 0)

\* the wait arguments r.wait is queried under: the values of the wait tests, at
\* most two sub-policies together, a wait_func with at most one beside it, a
\* named wait method with no other argument than its own
WaitOptions ==
    { o \in [ wait : Optional({"fixed_sleep", "exponential_sleep"}),
              wait_func : Optional({"attempt_times_delay"}),
              wait_fixed : Optional({WaitFixedMs, -WaitFixedMs}),
              wait_random_min : Optional({RandomMinMs}),
              wait_random_max : Optional({RandomMaxMs}),
              wait_incrementing_start : Optional({500}),
              wait_incrementing_increment : Optional({100, -300}),
              wait_incrementing_max : Optional({650}),
              wait_exponential_multiplier : Optional({1, 1000, -1}),
              wait_exponential_max : Optional({40}) ] :
        /\ o.wait_random_min # None => o.wait_random_max # None
        /\ o.wait_incrementing_max # None => GivesIncrementing(o)
        /\ WaitFamilies(o) <= 2
        /\ o.wait_func # None => o.wait = None /\ WaitFamilies(o) <= 1
        /\ o.wait = Some("fixed_sleep") => WaitFamilies(o) = 0 \/ (WaitFamilies(o) = 1 /\ GivesFixed(o))
        /\ o.wait = Some("exponential_sleep") =>
              WaitFamilies(o) = 0 \/ (WaitFamilies(o) = 1 /\ GivesExponential(o)) }

WaitKwds == { Override(NoKwds, o) : o \in WaitOptions }

\* the configurations with a stop_func or a wait_func, and other arguments beside it
OverrideKwds ==
    { kw \in PolicyKwds : kw.stop_func # None }
    \cup { kw \in WaitKwds : kw.wait_func # None }

\* the configurations call() is followed under with hooks: each hook given or
\* not, an attempt limit or none, each rejection argument given or not
HookKwds ==
    { Override(NoKwds, o) :
        o \in [ stop_max_attempt_number : Optional(1..MaxStopAttempts),
                retry_on_exception : Optional({{"IOError"}}),
                retry_on_result : Optional({"retry_if_result_none"}),
                before_attempts : Optional({"hook"}),
                after_attempts : Optional({"hook"}) ] }

\* the jitter cap given
JitterMaxMs == 2

\* the configurations call() is followed under with jitter: a cap that is
\* positive, zero, negative or not given, over a fixed wait or none
JitterKwds ==
    { Override(NoKwds, o) :
        o \in [ stop_max_attempt_number : Optional(2..MaxStopAttempts),
                wait_fixed : Optional({WaitFixedMs, -WaitFixedMs}),
                wait_jitter_max : Optional({0, JitterMaxMs, -JitterMaxMs}) ] }

\* the configurations two calls on one Retry are followed under
TwoKwds ==
    { Override(NoKwds, o) :
        o \in [ stop_max_attempt_number : {Some(1), Some(2)},
                stop_max_delay : Optional({MaxStopDelay}),
                wait_fixed : Optional({WaitFixedMs}) ] }

\* the configurations with a limit that is reached at once: an attempt limit
\* of 0 or below, a delay limit of 0; and an attempt limit of 2 beside them
EdgeKwds ==
    { Override(NoKwds, o) :
        o \in [ stop_max_attempt_number : {Some(-1), Some(0), Some(2)},
                stop_max_delay : Optional({0}),
                wait_fixed : Optional({WaitFixedMs}),
                retry_on_exception : Optional({{"IOError"}}),
                retry_on_result : Optional({"retry_if_result_none"}),
                wrap_exception : BOOLEAN ] }

Init == \E kw \in CallKwds : Constructed(kw)

EdgeInit == \E kw \in EdgeKwds : Constructed(kw)

TwoInit == \E kw \in TwoKwds : Constructed(kw) /\ now = 0

HookInit == \E kw \in HookKwds : Constructed(kw)

JitterInit == \E kw \in JitterKwds : Constructed(kw)

WaitInit == \E kw \in WaitKwds : Constructed(kw) /\ now = 0

OverrideInit == \E kw \in OverrideKwds : Constructed(kw) /\ now = 0

PolicyInit == \E kw \in PolicyKwds : Constructed(kw) /\ now = 0

Next ==
    \/ Call
    \/ \E dt \in 0..MaxRunMs, v \in ReturnValues : AttemptReturns(dt, v)
    \/ \E dt \in 0..MaxRunMs, tp \in ExceptionTypes : AttemptRaises(dt, tp)
    \/ CheckStop
    \/ Sleep

Spec == Init /\ [][Next]_vars

\* call() runs to its end: no step of it is postponed forever
FairSpec == Spec /\ WF_vars(Next)

\* two calls of one Retry, from different threads or one after the other
TwoNext == Next \/ Switch

TwoSpec == TwoInit /\ [][TwoNext]_vars

\* call() under limits that are reached at once
EdgeSpec == EdgeInit /\ [][Next]_vars

\* call() with hooks
HookSpec == HookInit /\ [][Next]_vars

\* call() with jitter
JitterSpec == JitterInit /\ [][Next]_vars

PolicyNext ==
    \E a \in 1..MaxAttempts, e \in QueryDelays : QueryStop(a, e)

PolicySpec == PolicyInit /\ [][PolicyNext]_vars

\* r.wait is queried for attempts up to MaxAttempts + 2, at two elapsed times
WaitQueryDelays == {0, MaxQueryMs}

WaitNext ==
    \E a \in 1..(MaxAttempts + 2), e \in WaitQueryDelays : QueryWait(a, e)

WaitSpec == WaitInit /\ [][WaitNext]_vars

OverrideNext ==
    \/ \E a \in 1..MaxAttempts, e \in QueryDelays : QueryStop(a, e)
    \/ \E a \in 1..MaxAttempts, e \in QueryDelays : QueryWait(a, e)

OverrideSpec == OverrideInit /\ [][OverrideNext]_vars

-----------------------------------------------------------------------------
(* Properties *)

\* the composite stop policy with only stop_max_attempt_number = n given
OnlyAttemptLimit(n) ==
    /\ dkwds.stop_func = None
    /\ dkwds.stop = None
    /\ dkwds.stop_max_attempt_number = Some(n)
    /\ dkwds.stop_max_delay = None

GaveUp == pc = "done" /\ outcome.exit = "gave up"
Accepted == pc = "done" /\ outcome.exit = "accepted"
LastFailed == f_result.kind = "raise"
LastReturned == f_result.kind = "return"

\* C1: with only stop_max_attempt_number = n (n >= 1) as stop policy, call() never
\* invokes f more than n times, a call that ends by giving up has invoked f
\* exactly n times (so every rejected attempt before the n-th is retried,
\* whatever the elapsed time), and call() terminates.
C1_ExactlyNAttempts ==
    /\ [](\A n \in 1..MaxStopAttempts :
            OnlyAttemptLimit(n) =>
                /\ invocations <= n
                /\ attempt_number <= n
                /\ (GaveUp => invocations = n))
    /\ <>((\E n \in 1..MaxStopAttempts : OnlyAttemptLimit(n)) => pc = "done")

C1_Witness ==
    /\ OnlyAttemptLimit(3)
    /\ GaveUp
    /\ invocations = 3
    /\ now - start_time_ms > 0

\* C2: when call() gives up after an attempt that raised and wrap_exception is
\* disabled, it raises the exception that the last invocation of f raised (same
\* class, same object), not a RetryError.
C2_GiveUpRaisesOriginal ==
    (GaveUp /\ LastFailed /\ ~dkwds.wrap_exception) =>
        /\ outcome.result.kind = "raise"
        /\ outcome.result.exception.tp # "RetryError"
        /\ outcome.result.exception = f_result.exception
        /\ outcome.result.exception.id = invocations

C2_Witness ==
    /\ GaveUp /\ LastFailed /\ ~dkwds.wrap_exception
    /\ invocations = 3
    /\ outcome.result = Raise(Exception("IOError", 3))

\* C3: when call() gives up after an attempt that raised and wrap_exception is
\* enabled, it raises a RetryError whose last_attempt is the last Attempt: its
\* attempt_number is the number of invocations of f (3 under
\* stop_max_attempt_number = 3) and it holds the exception of that invocation.
C3_GiveUpWrapsLastFailure ==
    (GaveUp /\ LastFailed /\ dkwds.wrap_exception) =>
        /\ outcome.result.kind = "raise"
        /\ outcome.result.exception.tp = "RetryError"
        /\ outcome.result.exception.last_attempt.attempt_number = invocations
        /\ outcome.result.exception.last_attempt.exception_info
              = exc_info(f_result.exception)
        /\ f_result.exception.id = invocations
        /\ (OnlyAttemptLimit(3) =>
              outcome.result.exception.last_attempt.attempt_number = 3)

C3_Witness ==
    /\ GaveUp /\ LastFailed /\ dkwds.wrap_exception
    /\ OnlyAttemptLimit(3)
    /\ dkwds.retry_on_exception = Some({"IOError"})
    /\ outcome.result.exception.last_attempt.attempt_number = 3
    /\ outcome.result.exception.last_attempt.exception_info[1] = "IOError"

\* C4: when call() gives up after an attempt that returned a value, it raises a
\* RetryError for either setting of wrap_exception; the wrapped Attempt holds no
\* exception, holds the value last returned by f, and its attempt_number is the
\* number of invocations of f.
C4_GiveUpOnValueWraps ==
    (GaveUp /\ LastReturned) =>
        /\ outcome.result.kind = "raise"
        /\ outcome.result.exception.tp = "RetryError"
        /\ outcome.result.exception.last_attempt.exception_info = None
        /\ outcome.result.exception.last_attempt.returned_value = f_result.value
        /\ outcome.result.exception.last_attempt.attempt_number = invocations

C4_Witness ==
    /\ GaveUp /\ LastReturned
    /\ ~dkwds.wrap_exception
    /\ OnlyAttemptLimit(3)
    /\ outcome.result.exception.last_attempt = Attempt(PyNone, 3, FALSE)

\* the failure filter says of the exception last raised by f: do not retry
LastNotRetryable ==
    /\ LastFailed
    /\ dkwds.retry_on_exception # None
    /\ f_result.exception.tp \notin Value(dkwds.retry_on_exception)

\* C5 as stated: a failure the rejection policy does not reject ends the call on
\* that attempt and the failure itself propagates, for every wrap_exception.
C5_Original ==
    LastNotRetryable =>
        /\ Accepted
        /\ invocations = attempt.attempt_number
        /\ outcome.result = Raise(f_result.exception)

\* C5 amended: a failure the rejection policy does not reject ends the call on
\* that attempt with no retry, for every wrap_exception; the failure itself
\* propagates when wrap_exception is disabled.  Retried only on IOError, a first
\* invocation that raises NameError ends the call at attempt 1.
C5_UnretryableFailureEndsCall ==
    LastNotRetryable =>
        /\ Accepted
        /\ invocations = attempt.attempt_number
        /\ outcome.result.kind = "raise"
        /\ (~dkwds.wrap_exception => outcome.result = Raise(f_result.exception))
        /\ (~dkwds.wrap_exception => outcome.result.exception.id = invocations)

C5_Witness ==
    /\ LastNotRetryable
    /\ ~dkwds.wrap_exception
    /\ dkwds.retry_on_exception = Some({"IOError"})
    /\ invocations = 1
    /\ outcome.result = Raise(Exception("NameError", 1))

\* C6: with wrap_exception enabled, a failure the failure predicate does not mark
\* as retryable ends the call on the attempt that raised it, with no retry, and
\* the caller gets a RetryError whose last_attempt holds that failure.
C6_UnretryableFailureWrapped ==
    (LastNotRetryable /\ dkwds.wrap_exception) =>
        /\ Accepted
        /\ invocations = attempt.attempt_number
        /\ outcome.result.kind = "raise"
        /\ outcome.result.exception.tp = "RetryError"
        /\ outcome.result.exception.last_attempt.exception_info
              = exc_info(f_result.exception)
        /\ outcome.result.exception.last_attempt.attempt_number = invocations

C6_Witness ==
    /\ LastNotRetryable
    /\ dkwds.wrap_exception
    /\ invocations = 1
    /\ outcome.result.exception.tp = "RetryError"
    /\ outcome.result.exception.last_attempt.exception_info[1] = "NameError"

\* the composite stop policy: no stop_func and no named stop
CompositeStop == dkwds.stop_func = None /\ dkwds.stop = None

NoStopConfig ==
    /\ CompositeStop
    /\ dkwds.stop_max_attempt_number = None
    /\ dkwds.stop_max_delay = None

Asked == query.fn = "stop"

\* C7 as stated: in the composite stop policy both limits are always active, an
\* unset one with its default (5 attempts, 100 ms).
C7_Original ==
    (Asked /\ CompositeStop) =>
        ((\/ query.attempts >= OrDefault(dkwds.stop_max_attempt_number,
                                         DefaultStopMaxAttemptNumber)
          \/ query.delay >= OrDefault(dkwds.stop_max_delay, DefaultStopMaxDelay))
         => query.result)

\* C7 amended: in the composite stop policy only the limits the caller gave are
\* active; a limit that was not given does not apply.  With no stop
\* configuration at all stop(a, e) is false, also for a >= 5 or e >= 100.
C7_OnlyGivenLimitsApply ==
    (Asked /\ CompositeStop) =>
        query.result =
            (\/ /\ dkwds.stop_max_attempt_number # None
                /\ query.attempts >= Value(dkwds.stop_max_attempt_number)
             \/ /\ dkwds.stop_max_delay # None
                /\ query.delay >= Value(dkwds.stop_max_delay))

C7_Witness ==
    /\ Asked
    /\ NoStopConfig
    /\ query.attempts >= DefaultStopMaxAttemptNumber
    /\ query.delay >= DefaultStopMaxDelay
    /\ ~query.result

\* C8: with no stop configuration the stop policy answers false whenever call()
\* consults it and call() never gives up: it ends only by an accepted attempt,
\* the first one accepted, also after more than 5 attempts.
C8_NeverStops ==
    NoStopConfig =>
        /\ ~stop_result
        /\ (pc = "done" =>
              /\ Accepted
              /\ invocations = attempt.attempt_number
              /\ ~should_reject(self, attempt))
        /\ (pc \in {"stop", "sleep"} => should_reject(self, attempt))

C8_Witness ==
    /\ NoStopConfig
    /\ Accepted
    /\ invocations > DefaultStopMaxAttemptNumber
    /\ outcome.result = Return("True")

\* the composite stop policy with only stop_max_delay given
OnlyDelayLimit ==
    /\ CompositeStop
    /\ dkwds.stop_max_attempt_number = None
    /\ dkwds.stop_max_delay # None

\* C9: with only stop_max_delay = d given, stop(a, e) is true exactly when
\* e >= d, for every attempt number.
C9_StopAfterDelay ==
    (Asked /\ OnlyDelayLimit) =>
        query.result = (query.delay >= Value(dkwds.stop_max_delay))

C9_Witness ==
    /\ Asked /\ OnlyDelayLimit
    /\ query.delay = Value(dkwds.stop_max_delay)
    /\ query.delay > 0
    /\ query.attempts = 1
    /\ query.result

\* the composite stop policy with both limits given
BothLimits ==
    /\ CompositeStop
    /\ dkwds.stop_max_attempt_number # None
    /\ dkwds.stop_max_delay # None

LimitReached ==
    \/ attempt_number >= Value(dkwds.stop_max_attempt_number)
    \/ now - start_time_ms >= Value(dkwds.stop_max_delay)

\* C10: with both limits given, stop(a, e) is true if and only if a >= n or
\* e >= d: after a rejected attempt call() goes on to sleep exactly when neither
\* limit is reached and gives up exactly when one is, so it gives up at the
\* first rejected attempt at which either limit is reached.
C10_StopAtEitherLimit ==
    BothLimits =>
        /\ (pc = "sleep" => ~stop_result /\ ~LimitReached)
        /\ (GaveUp => stop_result /\ LimitReached)
        /\ (pc = "done" => (GaveUp <=> should_reject(self, attempt)))

C10_Witness ==
    /\ BothLimits
    /\ GaveUp
    /\ attempt_number < Value(dkwds.stop_max_attempt_number)
    /\ now - start_time_ms >= Value(dkwds.stop_max_delay)
    /\ attempt_number > 1

AskedWait == query.fn = "wait"

-----------------------------------------------------------------------------
(* Suspension *)

\* the number of events of a kind: "before", "f", "after" or "sleep"
Count(kind) == Cardinality({ i \in DOMAIN events : events[i][1] = kind })

NoHooks == dkwds.before_attempts = None /\ dkwds.after_attempts = None

OnlyWaitFixed(w) ==
    /\ dkwds.wait = None /\ dkwds.wait_func = None
    /\ dkwds.wait_fixed = Some(w)
    /\ dkwds.wait_jitter_max = None

\* C12: call() suspends exactly once after each attempt that is followed by
\* another one and never after the last attempt made: each sleep directly
\* follows the invocation of f of its attempt number and is directly followed
\* by the next invocation, and a call that has ended has slept once less than
\* it invoked f.  With no stop limit and a fixed wait w, a call accepted after
\* k rejected attempts made k + 1 invocations and k suspensions that lasted
\* k * w ms in total, and at least k * w ms passed since it started.
C12_SleepOnlyBetweenAttempts ==
    /\ NoHooks =>
          \A i \in DOMAIN events :
              /\ events[i][1] = "sleep" =>
                    /\ i > 1 /\ events[i - 1] = <<"f", events[i][2]>>
                    /\ i < Len(events) => events[i + 1] = <<"f", events[i][2] + 1>>
              /\ (events[i][1] = "f" /\ i < Len(events)) =>
                    events[i + 1] = <<"sleep", events[i][2]>>
    /\ Count("f") = invocations
    /\ pc \in {"stop", "done"} =>
          /\ Count("sleep") = invocations - 1
          /\ events[Len(events)][1] # "sleep"
    /\ pc = "sleep" => Count("sleep") = invocations - 1
    /\ pc = "attempt" => Count("sleep") = invocations
    /\ \A w \in {WaitFixedMs} :
          (Accepted /\ NoStopConfig /\ OnlyWaitFixed(w)) =>
              /\ Count("sleep") = invocations - 1
              /\ slept_us >= (invocations - 1) * w * 1000
              /\ now - start_time_ms >= (invocations - 1) * w

C12_Witness ==
    /\ Accepted /\ NoStopConfig /\ OnlyWaitFixed(WaitFixedMs)
    /\ invocations = MaxAttempts
    /\ Count("sleep") = MaxAttempts - 1
    /\ slept_us = (MaxAttempts - 1) * WaitFixedMs * 1000

-----------------------------------------------------------------------------
(* Rejection *)

\* the last attempt made was rejected / has been judged
Rejected == pc \in {"stop", "sleep"} \/ GaveUp
Judged == invocations >= 1 /\ pc # "attempt"

\* C13: should_reject applies the failure predicate alone to an Outcome that
\* holds a failure and the value predicate alone to one that holds a value: a
\* failure is rejected exactly when retry_on_exception is not given or names
\* its class, whatever retry_on_result is, and a value exactly when
\* retry_on_result is given and rejects it, whatever retry_on_exception is.
\* With the defaults every failure is rejected and no value is: an attempt
\* that returns a value ends the call with that value.
C13_OnePredicatePerOutcome ==
    Judged =>
        /\ LastFailed =>
              /\ consulted = {"_retry_on_exception"}
              /\ Rejected <=> (\/ dkwds.retry_on_exception = None
                               \/ f_result.exception.tp \in Value(dkwds.retry_on_exception))
        /\ LastReturned =>
              /\ consulted = {"_retry_on_result"}
              /\ Rejected <=> (/\ dkwds.retry_on_result = Some("retry_if_result_none")
                               /\ f_result.value = PyNone)
        /\ (LastReturned /\ dkwds.retry_on_result = None) =>
              Accepted /\ outcome.result = Return(f_result.value)
        /\ (LastFailed /\ dkwds.retry_on_exception = None) => Rejected

\* a failure outside the retryable classes is accepted although the value
\* predicate given would reject the None the Attempt holds as returned_value
C13_Witness ==
    /\ Accepted /\ LastFailed
    /\ dkwds.retry_on_exception = Some({"IOError"})
    /\ dkwds.retry_on_result = Some("retry_if_result_none")
    /\ attempt.returned_value = PyNone
    /\ consulted = {"_retry_on_exception"}

-----------------------------------------------------------------------------
(* Failures *)

\* the failure raised by the last invocation of f
LastFailure == Exception(f_result.exception.tp, invocations)

\* C14: a failure raised by f is captured in the Attempt and nothing leaves
\* call() while the loop goes on; call() ends only by returning the value of
\* the last attempt, by re-raising the failure of the last attempt, or by
\* raising a RetryError that holds the last attempt, and a failure the caller
\* gets, raw or inside the RetryError, is the one the last invocation raised.
C14_OnlyLastFailureLeaves ==
    /\ pc # "done" => outcome = NoOutcome
    /\ (Judged /\ LastFailed) =>
          /\ f_result.exception = LastFailure
          /\ attempt.exception_info = exc_info(LastFailure)
    /\ Judged => attempt.attempt_number = invocations
    /\ pc = "done" =>
          \/ LastReturned /\ outcome.result = Return(f_result.value)
          \/ LastFailed /\ outcome.result = Raise(LastFailure)
          \/ outcome.result = Raise(RetryError(attempt))

C14_Witness ==
    /\ GaveUp /\ LastFailed /\ invocations = 3
    /\ outcome.result = Raise(Exception("NameError", 3))

-----------------------------------------------------------------------------
(* Hooks *)

\* the events that are not calls of a hook
IsLoopEvent(ev) == ev[1] \in {"f", "sleep"}

\* the positions of the calls of a hook with attempt number n
HookCalls(kind, n) == { i \in DOMAIN events : events[i] = <<kind, n>> }

\* attempt n was rejected: it is not the accepted attempt that ended the call
WasRejected(n) == ~(Accepted /\ n = invocations)

\* the invocations of f and the sleeps are those of a loop without hooks, and
\* the call ends as the stop and rejection arguments say
FlowWithoutHooks ==
    /\ LET loop == SelectSeq(events, IsLoopEvent)
       IN  \A i \in DOMAIN loop :
               loop[i] = IF i % 2 = 1 THEN <<"f", (i + 1) \div 2>> ELSE <<"sleep", i \div 2>>
    /\ Count("f") = invocations
    /\ Count("sleep") = IF pc = "attempt" THEN invocations ELSE invocations - 1
    /\ \A n \in 1..MaxStopAttempts :
          OnlyAttemptLimit(n) => /\ invocations <= n
                                 /\ GaveUp => invocations = n
    /\ NoStopConfig => ~GaveUp
    /\ (Judged /\ LastReturned) =>
          (Accepted <=> ~(/\ dkwds.retry_on_result # None
                          /\ f_result.value = PyNone))
    /\ (Judged /\ LastFailed) =>
          (Accepted <=> (/\ dkwds.retry_on_exception # None
                         /\ f_result.exception.tp \notin Value(dkwds.retry_on_exception)))
    /\ pc # "done" => outcome = NoOutcome
    /\ pc = "done" =>
          outcome.result = IF LastFailed THEN Raise(LastFailure)
                           ELSE IF Accepted THEN Return(f_result.value)
                           ELSE Raise(RetryError(attempt))

\* C15 as stated: the after-attempt hook given is called once with the number
\* of every attempt made, accepted or rejected.
C15_Original ==
    (pc # "idle" /\ dkwds.after_attempts # None) =>
        \A n \in 1..invocations : Cardinality(HookCalls("after", n)) = 1

\* C15: the before-attempt hook given is called once with the number of every
\* attempt made, directly before f is invoked; the after-attempt hook given is
\* called once with the number of every attempt that was rejected, directly
\* after f has run, and is not called for an attempt that is accepted; a hook
\* not given is never called; and the hooks change neither which attempts are
\* made nor how the call ends.
C15_HooksAroundRejectedAttempts ==
    pc # "idle" =>
        /\ \A i \in DOMAIN events :
              /\ events[i][1] = "f" =>
                    /\ dkwds.before_attempts # None =>
                          i > 1 /\ events[i - 1] = <<"before", events[i][2]>>
                    /\ (dkwds.after_attempts # None /\ WasRejected(events[i][2])) =>
                          i < Len(events) /\ events[i + 1] = <<"after", events[i][2]>>
              /\ events[i][1] = "before" => i < Len(events) /\ events[i + 1][1] = "f"
              /\ events[i][1] = "after" => i > 1 /\ events[i - 1][1] = "f"
        /\ \A n \in 1..invocations :
              /\ Cardinality(HookCalls("before", n)) =
                    IF dkwds.before_attempts # None THEN 1 ELSE 0
              /\ Cardinality(HookCalls("after", n)) =
                    IF dkwds.after_attempts # None /\ WasRejected(n) THEN 1 ELSE 0
        /\ Count("before") = IF dkwds.before_attempts # None THEN invocations ELSE 0
        /\ Count("after") <= invocations
        /\ FlowWithoutHooks

\* a call with both hooks whose third attempt is accepted: the after hook ran
\* for attempts 1 and 2 only
C15_Witness ==
    /\ Accepted /\ invocations = 3
    /\ dkwds.before_attempts # None /\ dkwds.after_attempts # None
    /\ events = << <<"before", 1>>, <<"f", 1>>, <<"after", 1>>, <<"sleep", 1>>,
                   <<"before", 2>>, <<"f", 2>>, <<"after", 2>>, <<"sleep", 2>>,
                   <<"before", 3>>, <<"f", 3>> >>

-----------------------------------------------------------------------------
(* Wait policies *)

\* the arguments of one wait sub-policy alone are given, to the composite wait
\* or to the named method
OnlyExponential ==
    /\ dkwds.wait_func = None
    /\ dkwds.wait \in {None, Some("exponential_sleep")}
    /\ GivesExponential(dkwds) /\ WaitFamilies(dkwds) = 1

OnlyIncrementing ==
    /\ dkwds.wait_func = None /\ dkwds.wait = None
    /\ GivesIncrementing(dkwds) /\ WaitFamilies(dkwds) = 1

\* 2^n by repeated doubling
RECURSIVE Doubled(_)
Doubled(n) == IF n = 0 THEN 1 ELSE 2 * Doubled(n - 1)

\* min(multiplier * 2^n, cap), and 0 when that is negative
ExponentialOf(n) ==
    LET multiplier == IF dkwds.wait_exponential_multiplier = None
                      THEN 1 ELSE Value(dkwds.wait_exponential_multiplier)
        raw == multiplier * Doubled(n)
        capped == IF dkwds.wait_exponential_max # None
                     /\ raw > Value(dkwds.wait_exponential_max)
                  THEN Value(dkwds.wait_exponential_max) ELSE raw
    IN  IF capped < 0 THEN 0 ELSE capped

\* start + increment * (n - 1), at most the cap and at least 0
IncrementingOf(n) ==
    LET start == IF dkwds.wait_incrementing_start = None
                 THEN 0 ELSE Value(dkwds.wait_incrementing_start)
        increment == IF dkwds.wait_incrementing_increment = None
                     THEN 100 ELSE Value(dkwds.wait_incrementing_increment)
        raw == start + increment * (n - 1)
        capped == IF dkwds.wait_incrementing_max # None
                     /\ raw > Value(dkwds.wait_incrementing_max)
                  THEN Value(dkwds.wait_incrementing_max) ELSE raw
    IN  IF capped < 0 THEN 0 ELSE capped

\* C16: the exponential wait for attempt n is min(multiplier * 2^n, cap), and
\* 0 when that is negative: multiplier 1 gives 2, 4, 8, 16, 32, 64 for
\* n = 1..6, and the cap 40 gives 2, 4, 8, 16, 32, 40, 40, 40 for n = 1..8.
C16_ExponentialWait ==
    (AskedWait /\ OnlyExponential) =>
        LET n == query.attempts
            multiplier == IF dkwds.wait_exponential_multiplier = None
                          THEN 1 ELSE Value(dkwds.wait_exponential_multiplier)
        IN  /\ query.result = ExponentialOf(n)
            /\ multiplier < 0 => query.result = 0
            /\ (multiplier = 1 /\ dkwds.wait_exponential_max = None /\ n <= 6) =>
                  query.result = <<2, 4, 8, 16, 32, 64>>[n]
            /\ (multiplier = 1 /\ dkwds.wait_exponential_max = Some(40) /\ n <= 8) =>
                  query.result = <<2, 4, 8, 16, 32, 40, 40, 40>>[n]

C16_Witness ==
    /\ AskedWait /\ OnlyExponential
    /\ dkwds.wait_exponential_multiplier = None
    /\ dkwds.wait_exponential_max = Some(40)
    /\ query.attempts = 6 /\ query.result = 40

\* C17: the incrementing wait for attempt n is start + increment * (n - 1),
\* at most the cap and at least 0, whatever the elapsed time: start 500 and
\* increment 100 give 500, 600, 700 for n = 1, 2, 3.
C17_IncrementingWait ==
    (AskedWait /\ OnlyIncrementing) =>
        LET n == query.attempts
            start == IF dkwds.wait_incrementing_start = None
                     THEN 0 ELSE Value(dkwds.wait_incrementing_start)
            increment == IF dkwds.wait_incrementing_increment = None
                         THEN 100 ELSE Value(dkwds.wait_incrementing_increment)
        IN  /\ query.result = IncrementingOf(n)
            /\ query.result >= 0
            /\ dkwds.wait_incrementing_max # None =>
                  query.result <= Value(dkwds.wait_incrementing_max)
            /\ (start = 500 /\ increment = 100 /\ dkwds.wait_incrementing_max = None
                    /\ n <= 3) =>
                  query.result = <<500, 600, 700>>[n]

C17_Witness ==
    /\ AskedWait /\ OnlyIncrementing
    /\ dkwds.wait_incrementing_start = Some(500)
    /\ dkwds.wait_incrementing_increment = Some(100)
    /\ dkwds.wait_incrementing_max = None
    /\ query.attempts = 3 /\ query.delay = MaxQueryMs /\ query.result = 700

\* the composite wait: no wait_func and no named wait method
CompositeWait == dkwds.wait_func = None /\ dkwds.wait = None

\* the bounds of the random wait: a minimum not given is 0, a maximum 1000
RandomLow == IF dkwds.wait_random_min = None THEN 0 ELSE Value(dkwds.wait_random_min)
RandomHigh == IF dkwds.wait_random_max = None THEN 1000 ELSE Value(dkwds.wait_random_max)

\* the delays the sub-policies given can answer for attempt n, one set each
GivenDelays(n) ==
    (IF GivesFixed(dkwds) THEN {{Value(dkwds.wait_fixed)}} ELSE {})
    \cup (IF GivesRandom(dkwds) THEN {RandomLow..RandomHigh} ELSE {})
    \cup (IF GivesIncrementing(dkwds) THEN {{IncrementingOf(n)}} ELSE {})
    \cup (IF GivesExponential(dkwds) THEN {{ExponentialOf(n)}} ELSE {})

\* C18: the composite wait answers the greatest of 0 and one delay of each
\* sub-policy given, not their sum: 0 when no wait argument is given, the
\* value of wait_fixed when it alone is given (0 when that value is negative),
\* and never a negative delay.
C18_CompositeWaitIsMax ==
    (AskedWait /\ CompositeWait) =>
        LET delays == GivenDelays(query.attempts)
        IN  /\ query.result >= 0
            /\ \A D \in delays : \E x \in D : x <= query.result
            /\ \/ query.result = 0
               \/ \E D \in delays : query.result \in D
            /\ delays = {} => query.result = 0
            /\ (GivesFixed(dkwds) /\ WaitFamilies(dkwds) = 1) =>
                  query.result = IF Value(dkwds.wait_fixed) >= 0
                                 THEN Value(dkwds.wait_fixed) ELSE 0

\* a fixed wait of WaitFixedMs beside an incrementing wait of 600: 600, not 601
C18_Witness ==
    /\ AskedWait /\ CompositeWait
    /\ dkwds.wait_fixed = Some(WaitFixedMs)
    /\ dkwds.wait_incrementing_start = Some(500)
    /\ dkwds.wait_incrementing_increment = Some(100)
    /\ dkwds.wait_incrementing_max = None
    /\ query.attempts = 2 /\ query.result = 600

OnlyRandom == CompositeWait /\ GivesRandom(dkwds) /\ WaitFamilies(dkwds) = 1

\* C19: the random wait answers a delay of the inclusive range from
\* wait_random_min (0 when not given) to wait_random_max, for every attempt
\* number and elapsed time; each delay of the range can be the answer of any
\* query, so the same query asked again can answer differently.
C19_RandomWaitInRange ==
    OnlyRandom =>
        /\ AskedWait => query.result \in RandomLow..RandomHigh
        /\ pc = "idle" =>
              \A a \in {1, MaxAttempts}, e \in WaitQueryDelays, v \in RandomLow..RandomHigh :
                  ENABLED (QueryWait(a, e) /\ query'.result = v)
        /\ AskedWait =>
              ENABLED (/\ QueryWait(query.attempts, query.delay)
                       /\ query'.result # query.result)

\* with no minimum given the random wait answers 0
C19_Witness ==
    /\ AskedWait /\ OnlyRandom
    /\ dkwds.wait_random_min = None /\ dkwds.wait_random_max = Some(RandomMaxMs)
    /\ query.result = 0

-----------------------------------------------------------------------------
(* Jitter *)

\* call() is about to suspend: time.sleep is called next with sleep_us
Suspending == pc = "sleep"

\* the delay of the composite wait under the fixed wait given or none
BaseDelay ==
    IF dkwds.wait_fixed # None /\ Value(dkwds.wait_fixed) > 0
    THEN Value(dkwds.wait_fixed) ELSE 0

\* C20: with the composite wait the duration passed to time.sleep is never
\* negative; with a jitter cap j > 0 it is at least the delay of the wait
\* policy for the attempt and less than that delay plus j, and with no
\* jitter cap it is that delay exactly.
C20_JitterWithinCap ==
    (Suspending /\ CompositeWait) =>
        /\ sleep_ms = BaseDelay
        /\ sleep_us >= 0
        /\ \A j \in {JitterMaxMs} :
              dkwds.wait_jitter_max = Some(j) =>
                  /\ sleep_us >= sleep_ms * 1000
                  /\ sleep_us < (sleep_ms + j) * 1000
        /\ dkwds.wait_jitter_max = None => sleep_us = sleep_ms * 1000

\* the greatest jitter drawn over the fixed wait
C20_Witness ==
    /\ Suspending /\ CompositeWait
    /\ dkwds.wait_fixed = Some(WaitFixedMs)
    /\ dkwds.wait_jitter_max = Some(JitterMaxMs)
    /\ sleep_us > WaitFixedMs * 1000 + ((JitterMaxMs - 1) * 1000)
    /\ sleep_us < (WaitFixedMs + JitterMaxMs) * 1000

-----------------------------------------------------------------------------
(* Attempt *)

\* call() ended by raising a RetryError
RaisedRetryError ==
    /\ pc = "done" /\ outcome.result.kind = "raise"
    /\ outcome.result.exception.tp = "RetryError"

\* Attempt a holds the failure of the last invocation of f and no value
HoldsLastFailure(a) ==
    /\ holds_exception(a)
    /\ a.exception_info = exc_info(LastFailure)
    /\ a.returned_value = PyNone

\* Attempt a holds the value the last invocation of f returned and no failure
HoldsLastValue(a) ==
    /\ ~holds_exception(a)
    /\ a.exception_info = None
    /\ a.returned_value = f_result.value

\* C21: the Attempt built for an invocation of f that raised holds that failure
\* and no value, the one built for an invocation that returned holds that
\* value (None included) and no failure, so has_exception tells the two apart;
\* the Attempt inside a RetryError is the last one built; and the Attempt of
\* the loop changes only when a new one is built for a new invocation of f.
C21_AttemptHoldsExactlyOne ==
    /\ [](Judged =>
            /\ LastFailed => HoldsLastFailure(attempt)
            /\ LastReturned => HoldsLastValue(attempt)
            /\ RaisedRetryError =>
                  /\ outcome.result.exception.last_attempt = attempt
                  /\ LastFailed => HoldsLastFailure(outcome.result.exception.last_attempt)
                  /\ LastReturned => HoldsLastValue(outcome.result.exception.last_attempt))
    /\ [][attempt' # attempt =>
             /\ pc = "attempt" /\ invocations' = invocations + 1
             /\ attempt'.attempt_number = attempt_number]_vars

\* a RetryError that carries an Attempt holding a failure
C21_Witness ==
    /\ RaisedRetryError /\ LastFailed /\ invocations = 2
    /\ holds_exception(outcome.result.exception.last_attempt)
    /\ outcome.result.exception.last_attempt.returned_value = PyNone

-----------------------------------------------------------------------------
(* Attempt numbers *)

\* the attempt numbers f was invoked under, in order
InvokedNumbers ==
    LET fs == SelectSeq(events, LAMBDA ev : ev[1] = "f")
    IN  [i \in DOMAIN fs |-> fs[i][2]]

\* C22 as stated: at every point of a call attempt_number is the number of
\* invocations of f made so far in the call.
C22_Original ==
    pc # "idle" => attempt_number = invocations

\* C22: in every call attempt_number is 1 when f is first invoked and grows by
\* exactly 1 from one invocation to the next; once f has been invoked and
\* until the next increment it is the number of invocations made so far in
\* the call, and from the entry of call() or the increment until f is invoked
\* it is one more (the number of the invocation to come); the Attempt built
\* after an invocation carries it; and a call starts from 1 whatever another
\* call on the same Retry has counted.
C22_AttemptNumberCounts ==
    /\ [](pc # "idle" =>
            /\ attempt_number = IF pc = "attempt" THEN invocations + 1 ELSE invocations
            /\ InvokedNumbers = [i \in 1..invocations |-> i]
            /\ pc # "attempt" => attempt.attempt_number = attempt_number
            /\ invocations = 0 => attempt_number = 1)
    /\ [][(other' = other /\ attempt_number' # attempt_number) =>
             IF pc = "idle"
             THEN attempt_number' = 1
             ELSE pc = "sleep" /\ attempt_number' = attempt_number + 1]_vars

\* the second call rejects its first attempt after the first call ended with 2
C22_Witness ==
    /\ other.call = 1 /\ other.frame.pc = "done" /\ other.frame.attempt_number = 2
    /\ pc = "stop" /\ attempt_number = 1 /\ invocations = 1
    /\ attempt.attempt_number = 1

-----------------------------------------------------------------------------
(* When the stop policy is asked *)

\* the rejection arguments accept the last attempt
LastAcceptable ==
    IF LastFailed
    THEN /\ dkwds.retry_on_exception # None
         /\ f_result.exception.tp \notin Value(dkwds.retry_on_exception)
    ELSE ~(dkwds.retry_on_result # None /\ f_result.value = PyNone)

\* the stop policy would say stop for the attempt that has just run
StopWouldHold == Stop(self, attempt_number, now - start_time_ms)

\* C23: call() asks the stop policy once after each rejected attempt and at no
\* other moment: an attempt the rejection policy accepts ends the call with
\* its value or failure without the stop policy being asked, also when the
\* attempt limit is reached or the elapsed time is beyond stop_max_delay.
C23_StopOnlyAfterRejection ==
    /\ [](/\ pc \in {"idle", "attempt", "sleep"} => stop_calls = invocations
          /\ pc = "stop" => stop_calls = invocations - 1 /\ ~LastAcceptable
          /\ GaveUp => stop_calls = invocations /\ ~LastAcceptable
          /\ Accepted => stop_calls = invocations - 1
          /\ (Judged /\ LastAcceptable) =>
                /\ Accepted
                /\ outcome.result =
                      IF LastReturned THEN Return(f_result.value)
                      ELSE IF dkwds.wrap_exception THEN Raise(RetryError(attempt))
                      ELSE Raise(LastFailure))
    /\ [][stop_calls' # stop_calls => pc = "stop" /\ ~LastAcceptable]_vars

\* the first attempt returns a value that is accepted, after the attempt limit
\* of 1 is reached and more time than stop_max_delay = 0 has passed
C23_Witness ==
    /\ Accepted /\ CompositeStop
    /\ dkwds.stop_max_attempt_number = Some(1) /\ dkwds.stop_max_delay = Some(0)
    /\ invocations = 1 /\ now - start_time_ms > 0
    /\ StopWouldHold /\ stop_calls = 0
    /\ outcome.result = Return("True")

-----------------------------------------------------------------------------
(* Two calls on one Retry *)

\* what the composite stop given says for attempts a after e ms
StopGivenSays(a, e) ==
    \/ dkwds.stop_max_attempt_number # None /\ a >= Value(dkwds.stop_max_attempt_number)
    \/ dkwds.stop_max_delay # None /\ e >= Value(dkwds.stop_max_delay)

\* what the composite wait given says
WaitGivenSays ==
    IF dkwds.wait_fixed # None THEN Value(dkwds.wait_fixed) ELSE 0

\* the locals fr of a call are those of a call that runs alone: its attempt
\* numbers count its own invocations, its stop and wait decisions are taken
\* on its own attempt number and its own elapsed time, and it ends with the
\* value or failure of its own last attempt
AsAlone(fr) ==
    /\ fr.pc = "idle" => fr = NoFrame
    /\ fr.pc # "idle" =>
          /\ fr.attempt_number =
                IF fr.pc = "attempt" THEN fr.invocations + 1 ELSE fr.invocations
          /\ LET fs == SelectSeq(fr.events, LAMBDA ev : ev[1] = "f")
             IN  /\ Len(fs) = fr.invocations
                 /\ \A i \in DOMAIN fs : fs[i][2] = i
          /\ fr.start_time_ms <= now
          /\ fr.delay_since_first_attempt_ms <= now - fr.start_time_ms
    /\ fr.pc \in {"stop", "sleep", "done"} =>
          /\ fr.attempt.attempt_number = fr.invocations
          /\ fr.f_result.kind = "raise" =>
                fr.attempt.exception_info
                    = exc_info(Exception(fr.f_result.exception.tp, fr.invocations))
          /\ fr.f_result.kind = "return" =>
                fr.attempt.returned_value = fr.f_result.value
    /\ fr.pc = "sleep" =>
          /\ ~fr.stop_result
          /\ ~StopGivenSays(fr.attempt_number, fr.delay_since_first_attempt_ms)
          /\ fr.sleep_ms = WaitGivenSays
    /\ (fr.pc = "done" /\ fr.outcome.exit = "gave up") =>
          /\ fr.stop_result
          /\ StopGivenSays(fr.attempt_number, fr.delay_since_first_attempt_ms)
          /\ fr.outcome.result =
                IF fr.f_result.kind = "raise"
                THEN Raise(Exception(fr.f_result.exception.tp, fr.invocations))
                ELSE Raise(RetryError(fr.attempt))
    /\ (fr.pc = "done" /\ fr.outcome.exit = "accepted") =>
          fr.outcome.result = Return(fr.f_result.value)

\* C24: call() leaves the Retry object as it was constructed, a step of one
\* call leaves the locals of the other call alone, and however two calls on
\* one Retry are interleaved each of them counts its attempts, takes its stop
\* and wait decisions and ends as a call that runs alone.
C24_CallsDoNotInterfere ==
    /\ [](self = Retry(dkwds) /\ AsAlone(Frame) /\ AsAlone(other.frame))
    /\ [][self' = self /\ dkwds' = dkwds]_vars
    /\ [][other'.call = other.call => other' = other]_vars

\* both calls are under way: call 1 waits with its first attempt rejected
\* while call 2, entered later, is about to sleep before its second attempt
C24_Witness ==
    /\ other.call = 1 /\ other.frame.pc = "stop" /\ other.frame.attempt_number = 1
    /\ pc = "sleep" /\ attempt_number = 1 /\ invocations = 1
    /\ start_time_ms > other.frame.start_time_ms

-----------------------------------------------------------------------------
(* Limits reached at once *)

\* the composite stop holds from the first attempt on: an attempt limit of 0
\* or below, or a delay limit of 0
StopsAtOnce ==
    /\ CompositeStop
    /\ \/ dkwds.stop_max_attempt_number # None /\ Value(dkwds.stop_max_attempt_number) <= 0
       \/ dkwds.stop_max_delay = Some(0)

\* C25: under every configuration f has been invoked when the stop policy is
\* first asked.  With an attempt limit of 0 or below or a delay limit of 0
\* the first attempt is made all the same: when it is accepted the call ends
\* with its value or failure, when it is rejected the call gives up at once,
\* with attempt_number 1 and without having slept; f is never invoked twice.
C25_FirstAttemptAlwaysMade ==
    /\ stop_calls >= 1 => invocations >= 1
    /\ pc \in {"stop", "sleep", "done"} => invocations >= 1
    /\ StopsAtOnce =>
          /\ invocations <= 1
          /\ pc # "sleep" /\ Count("sleep") = 0 /\ slept_us = 0
          /\ pc # "idle" => attempt_number = 1
          /\ (Judged /\ LastAcceptable) =>
                /\ Accepted
                /\ outcome.result =
                      IF LastReturned THEN Return(f_result.value)
                      ELSE IF dkwds.wrap_exception THEN Raise(RetryError(attempt))
                      ELSE Raise(LastFailure)
          /\ (Judged /\ ~LastAcceptable) => pc = "stop" \/ GaveUp
          /\ GaveUp =>
                /\ invocations = 1 /\ attempt.attempt_number = 1 /\ stop_calls = 1
                /\ stop_result
          /\ (pc = "stop") => ENABLED CheckStop

\* a call with an attempt limit of -1 gives up after its first attempt failed
C25_Witness ==
    /\ GaveUp /\ StopsAtOnce
    /\ dkwds.stop_max_attempt_number = Some(-1) /\ dkwds.stop_max_delay = None
    /\ invocations = 1 /\ LastFailed /\ slept_us = 0

====
